---- MODULE Spec2Model ----
(***************************************************************************)
(* Model of the relay handler proxy_to_chutes of proxy.py: one task per    *)
(* inbound POST, suspended at each await (request.json(), client.send(),   *)
(* each chunk of response_stream.aiter_bytes()).  The code between two     *)
(* awaits runs without interleaving (asyncio), so each action is the code  *)
(* from one await to the next.                                             *)
(***************************************************************************)
EXTENDS Integers, Sequences, FiniteSets, TLC

\* ---------------------------------------------------------------- bounds
NumRequests == 2      \* requests in flight together
MaxChunks == 2        \* chunks an upstream stream emits at most
MaxMembers == 2       \* members of an inbound JSON object text at most

Requests == 1..NumRequests

\* ---------------------------------------------------- program constants
CHUTES_API_URL == "https://llm.chutes.ai/v1/chat/completions"
Timeout == 300
DefaultStatus == 200

\* ------------------------------------------------------------ JSON values
\* A JSON value is its type and its size: the truth value of a bool, the
\* value of a number, the length of a string, list or object.
JBool(b) == [t |-> "bool", n |-> IF b THEN 1 ELSE 0]
JNull == [t |-> "null", n |-> 0]
JNum(n) == [t |-> "num", n |-> n]
JStr(n) == [t |-> "str", n |-> n]
JList(n) == [t |-> "list", n |-> n]
JObj(n) == [t |-> "obj", n |-> n]

StreamValues ==
    {JBool(TRUE), JBool(FALSE), JNull, JNum(0), JNum(1),
     JStr(0), JStr(3), JList(0), JList(1), JObj(0), JObj(1)}

\* members  "key": value  of an inbound JSON object text
Members == ({"stream"} \X StreamValues) \cup ({"model"} \X {JStr(1)})

RECURSIVE SeqsUpTo(_, _)
SeqsUpTo(S, n) ==
    IF n = 0 THEN {<<>>}
    ELSE LET shorter == SeqsUpTo(S, n - 1)
         IN shorter \cup {Append(s, x) : s \in {q \in shorter : Len(q) = n - 1}, x \in S}

\* the inbound body as it is on the wire
MalformedBody == [kind |-> "malformed", members |-> <<>>]
ArrayBody == [kind |-> "array", members |-> <<>>]
ObjectBody(ms) == [kind |-> "object", members |-> ms]

Bodies ==
    {MalformedBody, ArrayBody} \cup {ObjectBody(ms) : ms \in SeqsUpTo(Members, MaxMembers)}

\* the bodies of the requests handled concurrently
ConcBodies ==
    {MalformedBody, ArrayBody, ObjectBody(<<>>),
     ObjectBody(<<<<"stream", JBool(TRUE)>>>>)}

\* the inbound Authorization header ("" when the caller sends none)
InboundAuth == {"", "Bearer caller-key"}
ConcInboundAuth == {"Bearer caller-key"}

\* values of the environment variable CHUTES_API_TOKEN
NoneValue == "<None>"
Secrets == {NoneValue, "", "sk-A", "sk-B"}

\* upstream responses
Statuses == {200, 404, 500}
ContentTypes == {"text/event-stream", "<None>"}
ChunkValues == {"a", "b"}
JsonText(doc) == [valid |-> TRUE, doc |-> doc]
NonJsonText == [valid |-> FALSE, doc |-> "-"]
UpstreamBodies == {JsonText("A"), JsonText("B"), NonJsonText}

\* ------------------------------------------------------- Python helpers
\* json.loads of an object text: a dict, the last of duplicate keys wins
JsonLoads(ms) ==
    [k \in {ms[i][1] : i \in DOMAIN ms} |->
        ms[CHOOSE i \in DOMAIN ms :
              /\ ms[i][1] = k
              /\ \A j \in DOMAIN ms : ms[j][1] = k => j <= i][2]]

NoData == [kind |-> "unset", items |-> <<>>]

\* request.json(): the parsed body (an object text gives a dict)
RequestJson(body) ==
    IF body.kind = "object"
    THEN [kind |-> "dict", items |-> JsonLoads(body.members)]
    ELSE [kind |-> "list", items |-> <<>>]

\* d.get(k, default)
DictGet(d, k, default) == IF k \in DOMAIN d THEN d[k] ELSE default

\* Python truth value of a JSON value, as tested by  if is_streaming:
TruthyBoolOnly(j) == j.t = "bool" /\ j.n = 1
Truthy(j) ==
    CASE j.t = "null" -> FALSE
      [] j.t = "bool" -> j.n = 1
      [] j.t = "num" -> j.n # 0
      [] j.t \in {"str", "list", "obj"} -> j.n > 0

\* not api_key_to_use
SecretMissingEmptyOnly(k) == k = ""
SecretMissing(k) == k = NoneValue \/ k = ""

VARIABLES
    secret,          \* os.environ["CHUTES_API_TOKEN"]
    pc,              \* where each request's task is suspended
    inAuth,          \* Authorization header of the inbound request
    inBody,          \* body of the inbound request
    request_data,    \* locals of proxy_to_chutes
    api_key_to_use,
    headers,
    is_streaming,
    req,
    nSent,           \* calls of client.send made for the request
    sendStream,      \* the stream argument of the request's client.send
    response,        \* what upstream answered to the request
    upChunks,        \* chunks upstream has emitted on the request's stream
    chunk,           \* chunk held by stream_generator, not yet yielded
    delivered,       \* chunks yielded to the caller
    result           \* what the handler returned or raised

vars == <<secret, pc, inAuth, inBody, request_data, api_key_to_use, headers,
          is_streaming, req, nSent, sendStream, response, upChunks, chunk, delivered,
          result>>

NoHeaders == [content_type |-> "", authorization |-> <<>>]
NoReq == [built |-> FALSE, method |-> "", url |-> "", json |-> NoData,
          headers |-> NoHeaders, timeout |-> 0]
NoResponse == [state |-> "none", status |-> 0, content_type |-> "", body |-> NonJsonText]
NoResult == [kind |-> "none", err |-> "", status |-> 0, body |-> "-", media_type |-> ""]

Init ==
    /\ secret \in Secrets
    /\ pc = [r \in Requests |-> "idle"]
    /\ inAuth = [r \in Requests |-> ""]
    /\ inBody = [r \in Requests |-> MalformedBody]
    /\ request_data = [r \in Requests |-> NoData]
    /\ api_key_to_use = [r \in Requests |-> NoneValue]
    /\ headers = [r \in Requests |-> NoHeaders]
    /\ is_streaming = [r \in Requests |-> JBool(FALSE)]
    /\ req = [r \in Requests |-> NoReq]
    /\ nSent = [r \in Requests |-> 0]
    /\ sendStream = [r \in Requests |-> FALSE]
    /\ response = [r \in Requests |-> NoResponse]
    /\ upChunks = [r \in Requests |-> <<>>]
    /\ chunk = [r \in Requests |-> <<>>]
    /\ delivered = [r \in Requests |-> <<>>]
    /\ result = [r \in Requests |-> NoResult]

\* an exception leaves the handler
Raised(e) == [kind |-> "raised", err |-> e, status |-> 500, body |-> "-", media_type |-> ""]

\* the inbound POST reaches the route; the task awaits request.json()
Receive(r, auths, bodies) ==
    /\ pc[r] = "idle"
    /\ \E a \in auths, b \in bodies :
          /\ inAuth' = [inAuth EXCEPT ![r] = a]
          /\ inBody' = [inBody EXCEPT ![r] = b]
    /\ pc' = [pc EXCEPT ![r] = "await_json"]
    /\ UNCHANGED <<secret, sendStream, request_data, api_key_to_use, headers, is_streaming,
                   req, nSent, response, upChunks, chunk, delivered, result>>

\* headers = {"Content-Type": ..., "Authorization": f"Bearer {api_key_to_use}"}
HeadersForwarded(r) ==
    [content_type |-> "application/json",
     authorization |-> IF inAuth[r] # "" THEN <<inAuth[r]>> ELSE <<"Bearer", secret>>]
Headers(r) ==
    [content_type |-> "application/json", authorization |-> <<"Bearer", secret>>]

\* client.build_request(method="POST", url=..., json=request_data, headers=..., timeout=300.0)
BuildRequestNoStream(data, hs) ==
    [built |-> TRUE, method |-> "POST", url |-> CHUTES_API_URL,
     json |-> [data EXCEPT !.items = [k \in DOMAIN data.items \ {"stream"} |-> data.items[k]]],
     headers |-> hs, timeout |-> Timeout]
BuildRequest(data, hs) ==
    [built |-> TRUE, method |-> "POST", url |-> CHUTES_API_URL, json |-> data,
     headers |-> hs, timeout |-> Timeout]

\* request.json() returns; the handler runs to its next await (client.send)
\* or raises
ReadBody(r) ==
    /\ pc[r] = "await_json"
    /\ IF inBody[r].kind = "malformed"
       THEN /\ result' = [result EXCEPT ![r] = Raised("JSONDecodeError")]
            /\ pc' = [pc EXCEPT ![r] = "failed"]
            /\ UNCHANGED <<request_data, api_key_to_use, headers, is_streaming, req, nSent,
                           sendStream>>
       ELSE /\ request_data' = [request_data EXCEPT ![r] = RequestJson(inBody[r])]
            /\ api_key_to_use' = [api_key_to_use EXCEPT ![r] = secret]
            /\ IF SecretMissing(secret)
               THEN /\ result' = [result EXCEPT ![r] = Raised("ValueError")]
                    /\ pc' = [pc EXCEPT ![r] = "failed"]
                    /\ UNCHANGED <<headers, is_streaming, req, nSent, sendStream>>
               ELSE /\ headers' = [headers EXCEPT ![r] = Headers(r)]
                    /\ IF RequestJson(inBody[r]).kind # "dict"
                       THEN /\ result' = [result EXCEPT ![r] = Raised("AttributeError")]
                            /\ pc' = [pc EXCEPT ![r] = "failed"]
                            /\ UNCHANGED <<is_streaming, req, nSent, sendStream>>
                       ELSE LET data == RequestJson(inBody[r])
                                flag == DictGet(data.items, "stream", JBool(FALSE))
                            IN /\ is_streaming' = [is_streaming EXCEPT ![r] = flag]
                               /\ req' = [req EXCEPT ![r] = BuildRequest(data, Headers(r))]
                               /\ nSent' = [nSent EXCEPT ![r] = @ + 1]
                               /\ sendStream' = [sendStream EXCEPT ![r] = Truthy(flag)]
                               /\ pc' = [pc EXCEPT ![r] =
                                           IF Truthy(flag) THEN "await_send_stream"
                                           ELSE "await_send"]
                               /\ UNCHANGED result
    /\ UNCHANGED <<secret, inAuth, inBody, response, upChunks, chunk, delivered>>

\* the status line and headers upstream may answer with
UpstreamHeads == [status : Statuses, content_type : ContentTypes]
ConcUpstreamHeads == [status : {200}, content_type : {"text/event-stream"}]

\* an upstream response: its head and, once read in full, its body
Response(head, body) ==
    [state |-> "ok", status |-> head.status, content_type |-> head.content_type,
     body |-> body]

\* client.send raises (connection failure, timeout): the handler has no
\* try/except, the exception leaves it
SendFailRetry(r) ==
    /\ pc[r] \in {"await_send", "await_send_stream"}
    /\ nSent[r] < 2
    /\ nSent' = [nSent EXCEPT ![r] = @ + 1]
    /\ response' = [response EXCEPT ![r] = [NoResponse EXCEPT !.state = "error"]]
    /\ UNCHANGED <<secret, sendStream, pc, inAuth, inBody, request_data, api_key_to_use, headers,
                   is_streaming, req, upChunks, chunk, delivered, result>>
SendFail(r) ==
    /\ pc[r] \in {"await_send", "await_send_stream"}
    /\ response' = [response EXCEPT ![r] = [NoResponse EXCEPT !.state = "error"]]
    /\ \E e \in {"ConnectError", "TimeoutException"} :
          result' = [result EXCEPT ![r] = Raised(e)]
    /\ pc' = [pc EXCEPT ![r] = "failed"]
    /\ UNCHANGED <<secret, sendStream, inAuth, inBody, request_data, api_key_to_use, headers,
                   is_streaming, req, nSent, upChunks, chunk, delivered>>

\* return response_data: the serving layer answers 200 with the parsed body
NonStreamResultUnparsed(resp) ==
    [kind |-> "json", err |-> "", status |-> DefaultStatus, body |-> "text",
     media_type |-> "application/json"]
NonStreamResultPassStatus(resp) ==
    [kind |-> "json", err |-> "", status |-> resp.status, body |-> resp.body.doc,
     media_type |-> "application/json"]
NonStreamResult(resp) ==
    [kind |-> "json", err |-> "", status |-> DefaultStatus, body |-> resp.body.doc,
     media_type |-> "application/json"]

\* response = await client.send(req) returns; response.json() parses the
\* body or raises; the parsed body is returned
SendOk(r, heads) ==
    /\ pc[r] = "await_send"
    /\ \E h \in heads, b \in UpstreamBodies :
          /\ response' = [response EXCEPT ![r] = Response(h, b)]
          /\ IF b.valid
             THEN /\ result' = [result EXCEPT ![r] = NonStreamResult(Response(h, b))]
                  /\ pc' = [pc EXCEPT ![r] = "done"]
             ELSE /\ result' = [result EXCEPT ![r] = Raised("JSONDecodeError")]
                  /\ pc' = [pc EXCEPT ![r] = "failed"]
    /\ UNCHANGED <<secret, sendStream, inAuth, inBody, request_data, api_key_to_use, headers,
                   is_streaming, req, nSent, upChunks, chunk, delivered>>

\* StreamingResponse(stream_generator(), media_type=response_stream.headers.get("content-type"))
StreamResult(resp) ==
    [kind |-> "stream", err |-> "", status |-> DefaultStatus, body |-> "-",
     media_type |-> resp.content_type]

\* response_stream = await client.send(req, stream=True) returns with the
\* upstream headers; the handler returns the StreamingResponse, whose
\* generator the serving layer then iterates
SendStreamOk(r, heads) ==
    /\ pc[r] = "await_send_stream"
    /\ \E h \in heads :
          /\ response' = [response EXCEPT ![r] = Response(h, NonJsonText)]
          /\ result' = [result EXCEPT ![r] = StreamResult(Response(h, NonJsonText))]
    /\ pc' = [pc EXCEPT ![r] = "gen_await"]
    /\ UNCHANGED <<secret, sendStream, inAuth, inBody, request_data, api_key_to_use, headers,
                   is_streaming, req, nSent, upChunks, chunk, delivered>>

\* async for chunk in response_stream.aiter_bytes(): the next chunk arrives
ReadChunkBuffered(r) ==
    /\ pc[r] \in {"gen_await", "gen_yield"}
    /\ Len(upChunks[r]) < MaxChunks
    /\ \E c \in ChunkValues :
          /\ upChunks' = [upChunks EXCEPT ![r] = Append(@, c)]
          /\ chunk' = [chunk EXCEPT ![r] = Append(@, c)]
    /\ pc' = [pc EXCEPT ![r] = "gen_yield"]
    /\ UNCHANGED <<secret, sendStream, inAuth, inBody, request_data, api_key_to_use, headers,
                   is_streaming, req, nSent, response, delivered, result>>
ReadChunkShared(r) ==
    /\ pc[r] = "gen_await"
    /\ \E s \in Requests :
          /\ pc[s] \in {"gen_await", "gen_yield"}
          /\ Len(upChunks[s]) < MaxChunks
          /\ \E c \in ChunkValues :
                /\ upChunks' = [upChunks EXCEPT ![s] = Append(@, c)]
                /\ chunk' = [chunk EXCEPT ![r] = Append(@, c)]
    /\ pc' = [pc EXCEPT ![r] = "gen_yield"]
    /\ UNCHANGED <<secret, sendStream, inAuth, inBody, request_data, api_key_to_use, headers,
                   is_streaming, req, nSent, response, delivered, result>>
ReadChunk(r) ==
    /\ pc[r] = "gen_await"
    /\ Len(upChunks[r]) < MaxChunks
    /\ \E c \in ChunkValues :
          /\ upChunks' = [upChunks EXCEPT ![r] = Append(@, c)]
          /\ chunk' = [chunk EXCEPT ![r] = Append(@, c)]
    /\ pc' = [pc EXCEPT ![r] = "gen_yield"]
    /\ UNCHANGED <<secret, sendStream, inAuth, inBody, request_data, api_key_to_use, headers,
                   is_streaming, req, nSent, response, delivered, result>>

\* yield chunk: the chunk goes to the caller, the generator asks for the next
YieldSkipRepeat(r) ==
    /\ pc[r] = "gen_yield"
    /\ delivered' = [delivered EXCEPT ![r] =
                        IF @ # <<>> /\ @[Len(@)] = Head(chunk[r]) THEN @
                        ELSE Append(@, Head(chunk[r]))]
    /\ chunk' = [chunk EXCEPT ![r] = Tail(@)]
    /\ pc' = [pc EXCEPT ![r] = "gen_await"]
    /\ UNCHANGED <<secret, sendStream, inAuth, inBody, request_data, api_key_to_use, headers,
                   is_streaming, req, nSent, response, upChunks, result>>
Yield(r) ==
    /\ pc[r] = "gen_yield"
    /\ delivered' = [delivered EXCEPT ![r] = Append(@, Head(chunk[r]))]
    /\ chunk' = [chunk EXCEPT ![r] = Tail(@)]
    /\ pc' = [pc EXCEPT ![r] = "gen_await"]
    /\ UNCHANGED <<secret, sendStream, inAuth, inBody, request_data, api_key_to_use, headers,
                   is_streaming, req, nSent, response, upChunks, result>>

\* upstream closes the stream: aiter_bytes() is exhausted, the generator ends
StreamEnd(r) ==
    /\ pc[r] = "gen_await"
    /\ pc' = [pc EXCEPT ![r] = "done"]
    /\ UNCHANGED <<secret, sendStream, inAuth, inBody, request_data, api_key_to_use, headers,
                   is_streaming, req, nSent, response, upChunks, chunk, delivered, result>>

\* aiter_bytes() raises in mid-stream (read error, read timeout): the
\* exception leaves the generator, the response already begun is cut short
StreamAbort(r) ==
    /\ pc[r] = "gen_await"
    /\ pc' = [pc EXCEPT ![r] = "aborted"]
    /\ UNCHANGED <<secret, sendStream, inAuth, inBody, request_data, api_key_to_use, headers,
                   is_streaming, req, nSent, response, upChunks, chunk, delivered, result>>

\* the steps of the task of request r after its arrival
Handle(r, heads) ==
    \/ ReadBody(r)
    \/ SendFail(r)
    \/ SendOk(r, heads)
    \/ SendStreamOk(r, heads)
    \/ ReadChunk(r)
    \/ Yield(r)
    \/ StreamEnd(r)
    \/ StreamAbort(r)

\* several requests in flight, interleaved at their awaits
Next ==
    \E r \in Requests :
        \/ Receive(r, ConcInboundAuth, ConcBodies)
        \/ Handle(r, ConcUpstreamHeads)

Spec == Init /\ [][Next]_vars

\* one request, every inbound body and header
NextOne ==
    \/ Receive(1, InboundAuth, Bodies)
    \/ Handle(1, UpstreamHeads)

SpecOne == Init /\ [][NextOne]_vars

\* ===================================================== checked properties

\* the inbound body as request.json() reads it, and its stream field
IsObject(r) == inBody[r].kind = "object"
InboundDict(r) == JsonLoads(inBody[r].members)
HasStream(r) == IsObject(r) /\ "stream" \in DOMAIN InboundDict(r)
StreamIsTrue(r) == HasStream(r) /\ InboundDict(r)["stream"] = JBool(TRUE)
StreamAbsentOrFalse(r) ==
    IsObject(r) /\ (HasStream(r) => InboundDict(r)["stream"] = JBool(FALSE))

\* C1: for an inbound body with stream: true, the chunks yielded to the
\* caller are the chunks received from upstream, in the same order, none
\* added, dropped, duplicated, merged or reordered: while the stream runs
\* the yielded chunks followed by the one held are the upstream chunks so
\* far, and once the stream has completed the yielded chunks are exactly
\* the upstream chunks.
C1_StreamRelayedExactly ==
    \A r \in Requests :
        StreamIsTrue(r) =>
            /\ delivered[r] \o chunk[r] = upChunks[r]
            /\ pc[r] = "done" => (result[r].kind = "stream" /\ delivered[r] = upChunks[r])

C1_Witness ==
    \E r \in Requests :
        /\ StreamIsTrue(r)
        /\ pc[r] = "done"
        /\ Len(delivered[r]) >= 2
        /\ delivered[r][1] = delivered[r][2]

\* C2: with CHUTES_API_TOKEN unset no outbound request is built or sent and
\* nothing is received from upstream, whatever the body and its stream flag;
\* a request that has got past reading its body has ended with a raised error.
C2_UnsetSecretFailsBeforeNetwork ==
    secret = NoneValue =>
        \A r \in Requests :
            /\ ~req[r].built
            /\ nSent[r] = 0
            /\ response[r].state = "none"
            /\ upChunks[r] = <<>>
            /\ pc[r] \in {"idle", "await_json", "failed"}
            /\ pc[r] = "failed" => result[r].kind = "raised"

C2_Witness ==
    /\ secret = NoneValue
    /\ \E r \in Requests :
          /\ StreamIsTrue(r)
          /\ pc[r] = "failed"
          /\ result[r].err = "ValueError"

C4_NonStreamingReturnsUpstreamJson ==
    \A r \in Requests :
        (StreamAbsentOrFalse(r) /\ response[r].state = "ok" /\ response[r].body.valid) =>
            /\ nSent[r] = 1
            /\ ~sendStream[r]
            /\ pc[r] = "done"
            /\ result[r].kind = "json"
            /\ result[r].body = response[r].body.doc
            /\ delivered[r] = <<>>

C4_Witness ==
    \E r \in Requests :
        /\ ~HasStream(r)
        /\ IsObject(r)
        /\ response[r].state = "ok"
        /\ response[r].body = JsonText("B")
        /\ result[r].body = "B"

\* C5 as claimed: the streaming branch is taken only when the stream value
\* is the boolean true; any other value takes the non-streaming branch.
C5_StreamingOnlyForBooleanTrue ==
    \A r \in Requests :
        nSent[r] > 0 => (sendStream[r] <=> StreamIsTrue(r))

\* the truth value Python gives a JSON value
PythonTrue(v) ==
    \/ v.t = "bool" /\ v.n = 1
    \/ v.t = "num" /\ v.n # 0
    \/ v.t \in {"str", "list", "obj"} /\ v.n > 0

\* C5 as amended: the streaming branch is taken exactly when the stream
\* value is true in Python's sense (true, a non-zero number, a non-empty
\* string, list or object); absent, false, null, zero and empty values take
\* the non-streaming branch.
C5_StreamingIffTruthy ==
    \A r \in Requests :
        nSent[r] > 0 =>
            /\ sendStream[r] <=> (HasStream(r) /\ PythonTrue(InboundDict(r)["stream"]))
            /\ result[r].kind = "stream" => sendStream[r]
            /\ result[r].kind = "json" => ~sendStream[r]

C5_Witness ==
    \E r \in Requests :
        /\ HasStream(r)
        /\ InboundDict(r)["stream"] = JStr(3)
        /\ result[r].kind = "stream"

\* C6: the JSON body of the outbound request is the inbound body as read:
\* the same fields, the stream field included, with the same values.
C6_OutboundBodyIsInboundBody ==
    \A r \in Requests :
        req[r].built =>
            /\ IsObject(r)
            /\ req[r].json.kind = "dict"
            /\ DOMAIN req[r].json.items = DOMAIN InboundDict(r)
            /\ \A k \in DOMAIN InboundDict(r) : req[r].json.items[k] = InboundDict(r)[k]
            /\ req[r].method = "POST"
            /\ req[r].url = CHUTES_API_URL

C6_Witness ==
    \E r \in Requests :
        /\ req[r].built
        /\ DOMAIN req[r].json.items = {"stream", "model"}
        /\ req[r].json.items["stream"] = JBool(FALSE)

\* C7: at most one outbound call is made per request, and when the call
\* fails (client.send raises, or the body of a non-streaming answer is not
\* JSON) the request has ended with a raised error, nothing returned and
\* nothing yielded; a stream cut short is not retried either.
C7_NoRetryNoRecovery ==
    \A r \in Requests :
        /\ nSent[r] <= 1
        /\ (\/ response[r].state = "error"
            \/ (response[r].state = "ok" /\ ~sendStream[r] /\ ~response[r].body.valid))
           => (/\ pc[r] = "failed"
               /\ result[r].kind = "raised"
               /\ delivered[r] = <<>>)
        /\ pc[r] = "aborted" => (nSent[r] = 1 /\ result[r].kind = "stream")

C7_Witness ==
    \E r \in Requests :
        /\ response[r].state = "error"
        /\ nSent[r] = 1
        /\ result[r].err = "TimeoutException"

\* C8: in streaming mode a chunk read from upstream is yielded before the
\* next is asked for: the generator holds at most one chunk, and the chunks
\* received and not yet yielded are exactly the ones it holds.
C8_AtMostOneChunkHeld ==
    \A r \in Requests :
        /\ Len(chunk[r]) <= 1
        /\ Len(upChunks[r]) - Len(delivered[r]) = Len(chunk[r])
        /\ pc[r] = "gen_yield" <=> Len(chunk[r]) = 1

C8_Witness ==
    \E r \in Requests :
        /\ Len(chunk[r]) = 1
        /\ Len(delivered[r]) >= 1

\* what the caller of request r sees, and what it is made from
OwnState(r) ==
    <<inAuth[r], inBody[r], request_data[r], api_key_to_use[r], headers[r],
      is_streaming[r], req[r], nSent[r], sendStream[r], response[r], upChunks[r],
      chunk[r], delivered[r], result[r]>>

C9_OwnResponseOnly ==
    \A r \in Requests :
        /\ result[r].kind = "json" =>
              (response[r].state = "ok" /\ result[r].body = response[r].body.doc)
        /\ result[r].kind = "stream" =>
              (response[r].state = "ok" /\ result[r].media_type = response[r].content_type)
        /\ \A i \in DOMAIN delivered[r] :
              i \in DOMAIN upChunks[r] /\ delivered[r][i] = upChunks[r][i]
        /\ req[r].built => req[r].json.items = InboundDict(r)

C9_StepOfOneRequest ==
    \E r \in Requests :
        /\ pc'[r] # pc[r]
        /\ \A s \in Requests \ {r} : pc'[s] = pc[s] /\ OwnState(s)' = OwnState(s)

\* C9: requests in flight together do not interfere: under every
\* interleaving of their awaits each response is made of the request's own
\* inbound body and own upstream response, and a step of one request
\* changes nothing of another request (its locals, its upstream response and
\* chunks, what it has yielded and returned).
C9_NoInterference == []C9_OwnResponseOnly /\ [][C9_StepOfOneRequest]_vars

C9_Witness ==
    \E r, s \in Requests :
        /\ r # s
        /\ pc[r] = "gen_yield"
        /\ pc[s] = "gen_yield"
        /\ delivered[r] # <<>>
        /\ upChunks[r] # upChunks[s]
        /\ chunk[r] # chunk[s]

\* C10: on the non-streaming path the caller's status is 200 whatever the
\* upstream status: whenever the upstream body parses as JSON it is returned
\* as a successful response, and the upstream status goes nowhere.
C10_NonStreamingAlways200 ==
    \A r \in Requests :
        /\ result[r].kind = "json" => result[r].status = 200
        /\ (response[r].state = "ok" /\ ~sendStream[r] /\ response[r].body.valid) =>
              (result[r].kind = "json" /\ result[r].status = 200)

C10_Witness ==
    \E r \in Requests :
        /\ result[r].kind = "json"
        /\ response[r].status = 500
        /\ result[r].status = 200
====
